---- MODULE Spec2Model ----
(***************************************************************************)
(* Model of src/main/python/parse_logs.py: the LogParser that reads audit  *)
(* log lines into Request/Task objects, backfills the node monitor         *)
(* get-task times at the end of every file, and extracts the windowed      *)
(* metric sequences.                                                       *)
(*                                                                         *)
(* Times are integers (epoch milliseconds).  The only non-integer values   *)
(* the program computes are the halves produced by "/ 2.0" in              *)
(* Task.adjusted_completion_time; every quantity derived from it           *)
(* (adjusted_completion_time, response_time) is kept here in HALF          *)
(* milliseconds, i.e. as twice the Python value, which is exact.           *)
(***************************************************************************)
EXTENDS Integers, Sequences, FiniteSets, TLC

VARIABLES
    requests,                     \* LogParser.__requests: request id -> Request
    earliest_time,                \* LogParser.__earliest_time
    node_monitor_queue_lengths,   \* LogParser.__node_monitor_queue_lengths
    exc,                          \* "" or the name of the uncaught exception
    pc,                           \* position of main: "idle", "reading", "done", "raised"
    nfiles,                       \* number of parse_file calls started
    nlines,                       \* number of lines read so far (all files)
    results,                      \* the sequences built by output_results
    observed,                     \* history: <<request id, task id>> pairs named by dispatched events
    scope,                        \* the universe the lines of the log files are drawn from
    warnings,                     \* the kinds of the logging.warn messages emitted so far
    files,                        \* history (replay scope): the lines read, file by file
    percentile                    \* the last get_percentile call: arguments and value

vars == <<requests, earliest_time, node_monitor_queue_lengths, exc, pc, nfiles,
          nlines, results, observed, scope, warnings, files, percentile>>

----------------------------------------------------------------------------
(* Program constants *)

INVALID_TIME == 0
\* -sys.maxint - 1 in the source (-2^63); kept at the most negative value
\* TLC's integers hold, below every time difference of the model.
INVALID_TIME_DELTA == -2147483647
START_SEC == 200
END_SEC == 300
\* (time.time() * 1000)**2 in the source: larger than every timestamp.
InitialEarliestTime == 2000000000

----------------------------------------------------------------------------
(* Bounds *)

MaxTime == 2        \* ordinary timestamps are 0..MaxTime or 1..MaxTime
MaxTasks == 2       \* the task count of an arrival event is 1..MaxTasks
WideLines == 2      \* lines read in a run of the wide scope
MidLines == 3       \* lines read in a run of the middle scope
DeepLines == 5      \* lines read in a run of the deep scope
MaxFiles == 2       \* parse_file calls in a run
ReplayLines == 4    \* lines read in a run of the replay scope
MaxSamples == 3     \* length of the list handed to get_percentile
MaxSample == 3      \* the samples handed to get_percentile are -1..MaxSample

\* Arrival timestamps that fall on or just outside the extraction window,
\* relative to an earliest time of 1 or MaxTime.
WindowProbes == {START_SEC * 1000 + 1, END_SEC * 1000 + MaxTime}

\* Two requests with two tasks each, every timestamp (also 0), two nodes,
\* both textual forms of a node address in the enqueue events; few lines.
WideScope ==
    [name |-> "wide", reqs |-> {"r1", "r2"}, tasks |-> {"t1", "t2"},
     node_addrs |-> {"n1", "n2"}, enqueue_addrs |-> {"n1", "h/n1"},
     times |-> 0..MaxTime, arrival_times |-> 0..MaxTime, aux_times |-> 0..MaxTime,
     previous |-> {<<"", "">>, <<"r1", "t1">>}, max_lines |-> WideLines]

\* One request with two tasks on two nodes.
MidScope ==
    [name |-> "mid", reqs |-> {"r1"}, tasks |-> {"t1", "t2"},
     node_addrs |-> {"n1", "n2"}, enqueue_addrs |-> {"n1", "h/n1"},
     times |-> 0..MaxTime, arrival_times |-> 0..MaxTime, aux_times |-> 0..MaxTime,
     previous |-> {<<"", "">>, <<"r1", "t1">>}, max_lines |-> MidLines]

\* One request with one task, enough lines to complete it, and arrival times
\* that reach the extraction window.
DeepScope ==
    [name |-> "deep", reqs |-> {"r1"}, tasks |-> {"t1"},
     node_addrs |-> {"n1"}, enqueue_addrs |-> {"n1"},
     times |-> 1..MaxTime, arrival_times |-> (1..MaxTime) \cup WindowProbes,
     aux_times |-> {1},
     previous |-> {<<"", "">>}, max_lines |-> DeepLines]

\* One request with one task, no auxiliary events and well-formed lines only;
\* the lines of every file are remembered, so that a file can be compared with
\* a second copy of it.
ReplayScope ==
    [name |-> "replay", reqs |-> {"r1"}, tasks |-> {"t1"},
     node_addrs |-> {"n1"}, enqueue_addrs |-> {"n1"},
     times |-> 1..MaxTime, arrival_times |-> {1}, aux_times |-> {},
     previous |-> {<<"", "">>}, max_lines |-> ReplayLines]

Scopes == {WideScope, MidScope, DeepScope, ReplayScope}

----------------------------------------------------------------------------
(* Helpers for dictionaries and text *)

EmptyMap == [k \in {} |-> 0]

Put(m, k, v) == [x \in (DOMAIN m) \cup {k} |-> IF x = k THEN v ELSE m[x]]

Max(a, b) == IF a >= b THEN a ELSE b

Min(a, b) == IF a <= b THEN a ELSE b

RECURSIVE SetToSeq(_)
\* The elements of a finite set in some fixed order (a dictionary's keys).
SetToSeq(S) == IF S = {} THEN << >>
               ELSE LET x == CHOOSE y \in S : TRUE IN <<x>> \o SetToSeq(S \ {x})

RECURSIVE Concat(_)
\* list.extend over a sequence of lists
Concat(ss) == IF ss = << >> THEN << >> ELSE Head(ss) \o Concat(Tail(ss))

\* list.sort() on a list of numbers
Sorted(s) == SortSeq(s, LAMBDA a, b : a < b)

\* Decimal text of the small numbers that occur as event parameters.
NumText(n) == CASE n = 0 -> "0" [] n = 1 -> "1" [] n = 2 -> "2" [] n = 3 -> "3"
                [] n = 4 -> "4" [] OTHER -> "5"

\* int(text) succeeds
IsIntText(s) == \E n \in 0..5 : NumText(n) = s

\* int(text)
IntOf(s) == CHOOSE n \in 0..5 : NumText(n) = s

\* address.split("/"): the node addresses of the model are "ip" or "host/ip".
SplitSlash(address) == CASE address = "h/n1" -> <<"h", "n1">>
                         [] address = "h/n2" -> <<"h", "n2">>
                         [] OTHER -> <<address>>

----------------------------------------------------------------------------
(* get_percentile *)

\* The percent argument is kept in hundredths: percent stands for the float
\* float(percent) / 100 that output_results hands over.  Every float of the
\* function is an IEEE-754 double.  The doubles that occur are multiples of
\* 2^-60 below 2^12 in magnitude, so a double is a sign and a magnitude in
\* units of 2^-60, the magnitude as three digits of base 2^24, lowest digit
\* first.  The key argument is left at its default, the identity, as every
\* caller leaves it.

NUM_DATA_POINTS == 100

Base == 2^24

\* The magnitudes of 1.0 and of 0.0
One == <<0, 0, 2^12>>

Zero == <<0, 0, 0>>

\* A magnitude times a small natural number, exactly
MulSmall(x, m) ==
    LET t1 == x[1] * m
        t2 == x[2] * m + t1 \div Base
        t3 == x[3] * m + t2 \div Base
    IN <<t1 % Base, t2 % Base, t3>>

\* The sum of two magnitudes, exactly
Add3(x, y) ==
    LET t1 == x[1] + y[1]
        t2 == x[2] + y[2] + t1 \div Base
        t3 == x[3] + y[3] + t2 \div Base
    IN <<t1 % Base, t2 % Base, t3>>

\* x < y for magnitudes
Less3(x, y) ==
    \/ x[3] < y[3]
    \/ x[3] = y[3] /\ x[2] < y[2]
    \/ x[3] = y[3] /\ x[2] = y[2] /\ x[1] < y[1]

\* The difference x - y of two magnitudes with y <= x, exactly
Sub3(x, y) ==
    LET b1 == IF x[1] < y[1] THEN 1 ELSE 0
        t1 == x[1] - y[1] + b1 * Base
        b2 == IF x[2] < y[2] + b1 THEN 1 ELSE 0
        t2 == x[2] - y[2] - b1 + b2 * Base
    IN <<t1, t2, x[3] - y[3] - b2>>

\* The number of binary digits of one digit of a magnitude
BitLen(n) == IF n = 0 THEN 0 ELSE CHOOSE b \in 1..31 : 2^(b - 1) <= n /\ n \div 2 < 2^(b - 1)

\* The number of binary digits of a magnitude
Len3(x) == IF x[3] # 0 THEN 48 + BitLen(x[3]) ELSE IF x[2] # 0 THEN 24 + BitLen(x[2]) ELSE BitLen(x[1])

\* The double nearest to an exact magnitude: 53 significant bits, a tie goes
\* to the even neighbour.  sticky says that the exact value lies a little
\* above x (a division left a remainder).
Round53(x, sticky) ==
    LET d == Len3(x) - 53
    IN IF d <= 0 THEN x
       ELSE LET r == x[1] % 2^d
                half == 2^(d - 1)
                odd == (x[1] \div 2^d) % 2 = 1
                up == r > half \/ (r = half /\ (sticky \/ odd))
                down == <<x[1] - r, x[2], x[3]>>
            IN IF up THEN Add3(down, <<2^d, 0, 0>>) ELSE down

\* float(n) of a small integer
FromInt(n) == [neg |-> n < 0, mag |-> MulSmall(One, IF n < 0 THEN 0 - n ELSE n)]

\* n * x for an integer n and a double x >= 0 given by its magnitude
MulInt(n, x) ==
    LET mag == Round53(MulSmall(x, IF n < 0 THEN 0 - n ELSE n), FALSE)
    IN [neg |-> n < 0 /\ mag # Zero, mag |-> mag]

\* x + y for doubles
AddDouble(x, y) ==
    IF x.neg = y.neg THEN [neg |-> x.neg, mag |-> Round53(Add3(x.mag, y.mag), FALSE)]
    ELSE IF Less3(x.mag, y.mag) THEN [neg |-> y.neg, mag |-> Round53(Sub3(y.mag, x.mag), FALSE)]
    ELSE [neg |-> x.neg /\ x.mag # y.mag, mag |-> Round53(Sub3(x.mag, y.mag), FALSE)]

\* x <= y for doubles
LeDouble(x, y) ==
    IF x.neg # y.neg THEN x.neg \/ (x.mag = Zero /\ y.mag = Zero)
    ELSE IF x.neg THEN ~Less3(x.mag, y.mag) ELSE ~Less3(y.mag, x.mag)

\* "%d" % x: the integer part, towards zero
FormatD(x) == IF x.neg THEN 0 - (x.mag[3] \div 2^12) ELSE x.mag[3] \div 2^12

\* float(i) / NUM_DATA_POINTS: the magnitude of the double nearest to i / 100,
\* by long division of i * 2^60
Fraction(i) ==
    LET n3 == i * 2^12
        n2 == (n3 % NUM_DATA_POINTS) * Base
        n1 == (n2 % NUM_DATA_POINTS) * Base
    IN Round53(<<n1 \div NUM_DATA_POINTS, n2 \div NUM_DATA_POINTS, n3 \div NUM_DATA_POINTS>>,
               n1 % NUM_DATA_POINTS # 0)

\* math.floor(k) of a magnitude
Floor(k) == k[3] \div 2^12

\* math.ceil(k) of a magnitude
Ceil(k) == IF k[1] = 0 /\ k[2] = 0 /\ k[3] % 2^12 = 0 THEN Floor(k) ELSE Floor(k) + 1

\* Mutant of get_percentile: the last index is taken one short
get_percentile_short(N, percent) ==
    IF N = << >> THEN [exc |-> "", value |-> FromInt(0)]
    ELSE LET k == Round53(MulSmall(Fraction(percent), Max(Len(N) - 2, 0)), FALSE)
             f == Floor(k)
             c == Ceil(k)
             d0 == MulInt(N[f + 1], Round53(Sub3(MulSmall(One, c), k), FALSE))
             d1 == MulInt(N[c + 1], Round53(Sub3(k, MulSmall(One, f)), FALSE))
         IN IF f = c THEN [exc |-> "", value |-> FromInt(N[f + 1])]
            ELSE [exc |-> "", value |-> AddDouble(d0, d1)]

\* Mutant of get_percentile: the two weights are exchanged
get_percentile_swapped(N, percent) ==
    IF N = << >> THEN [exc |-> "", value |-> FromInt(0)]
    ELSE LET k == Round53(MulSmall(Fraction(percent), Len(N) - 1), FALSE)
             f == Floor(k)
             c == Ceil(k)
             d0 == MulInt(N[f + 1], Round53(Sub3(k, MulSmall(One, f)), FALSE))
             d1 == MulInt(N[c + 1], Round53(Sub3(MulSmall(One, c), k), FALSE))
         IN IF f = c THEN [exc |-> "", value |-> FromInt(N[f + 1])]
            ELSE [exc |-> "", value |-> AddDouble(d0, d1)]

\* Mutant of get_percentile: the test for an empty list is left out, and the
\* index into the empty list raises
get_percentile_unguarded(N, percent) ==
    IF N = << >> THEN [exc |-> "IndexError", value |-> FromInt(0)]
    ELSE LET k == Round53(MulSmall(Fraction(percent), Len(N) - 1), FALSE)
             f == Floor(k)
             c == Ceil(k)
             d0 == MulInt(N[f + 1], Round53(Sub3(MulSmall(One, c), k), FALSE))
             d1 == MulInt(N[c + 1], Round53(Sub3(k, MulSmall(One, f)), FALSE))
         IN IF f = c THEN [exc |-> "", value |-> FromInt(N[f + 1])]
            ELSE [exc |-> "", value |-> AddDouble(d0, d1)]

get_percentile(N, percent) ==
    IF N = << >> THEN [exc |-> "", value |-> FromInt(0)]
    ELSE LET k == Round53(MulSmall(Fraction(percent), Len(N) - 1), FALSE)
             f == Floor(k)
             c == Ceil(k)
             d0 == MulInt(N[f + 1], Round53(Sub3(MulSmall(One, c), k), FALSE))
             d1 == MulInt(N[c + 1], Round53(Sub3(k, MulSmall(One, f)), FALSE))
         IN IF f = c THEN [exc |-> "", value |-> FromInt(N[f + 1])]
            ELSE [exc |-> "", value |-> AddDouble(d0, d1)]

\* One "%d" field of row i of the percentile table that output_results
\* writes: the column is the sorted list N, the row is float(i) / 100
table_entry(N, i) == FormatD(get_percentile(N, i).value)

\* The state of the percentile variable before any call
NoPercentile == [called |-> FALSE, N |-> << >>, percent |-> 0, exc |-> "", value |-> FromInt(0)]

----------------------------------------------------------------------------
(* class Task *)

Task(id) ==
    [node_monitor_address |-> "",
     node_monitor_get_task_time |-> INVALID_TIME,
     scheduler_launch_time |-> INVALID_TIME,
     node_monitor_launch_time |-> INVALID_TIME,
     completion_time |-> INVALID_TIME,
     id |-> id,
     previous_request_id |-> "",
     previous_task_id |-> ""]

\* Mutant of set_scheduler_launch_time: a time already set is kept
set_scheduler_launch_time_first_wins(task, time) ==
    [task EXCEPT !.scheduler_launch_time = IF @ # INVALID_TIME THEN @ ELSE time]

\* The setters warn on a second write and then overwrite.
set_scheduler_launch_time(task, time) == [task EXCEPT !.scheduler_launch_time = time]

\* Mutant of set_node_monitor_launch_time: a second launch clears the field
set_node_monitor_launch_time_clearing(task, time) ==
    [task EXCEPT !.node_monitor_launch_time = IF @ # INVALID_TIME THEN INVALID_TIME ELSE time]

set_node_monitor_launch_time(task, time) == [task EXCEPT !.node_monitor_launch_time = time]

\* Mutant of set_completion_time: a second completion clears the field
set_completion_time_clearing(task, time) ==
    [task EXCEPT !.completion_time = IF @ # INVALID_TIME THEN INVALID_TIME ELSE time]

set_completion_time(task, time) == [task EXCEPT !.completion_time = time]

set_previous_task(task, previous_request_id, previous_task_id) ==
    [task EXCEPT !.previous_request_id = previous_request_id,
                 !.previous_task_id = previous_task_id]

service_time(task) == task.completion_time - task.node_monitor_launch_time

\* Mutant of skew: the sign of the skew reversed
skew_negated(task) ==
    (task.node_monitor_get_task_time + task.node_monitor_launch_time)
      - 2 * task.scheduler_launch_time

\* Mutant of skew: the sum of the two node times not halved
skew_no_halving(task) ==
    2 * task.scheduler_launch_time
      - 2 * (task.node_monitor_get_task_time + task.node_monitor_launch_time)

\* Twice the Python value: skew = scheduler_launch_time -
\* (node_monitor_get_task_time + node_monitor_launch_time) / 2.0
skew(task) ==
    2 * task.scheduler_launch_time
      - (task.node_monitor_get_task_time + task.node_monitor_launch_time)

\* Twice the Python value: completion_time + skew
adjusted_completion_time(task) == 2 * task.completion_time + skew(task)

\* Mutant of task_complete: the scheduler launch time is not required
task_complete_no_scheduler(task) ==
    /\ task.node_monitor_get_task_time # INVALID_TIME
    /\ task.node_monitor_launch_time # INVALID_TIME
    /\ task.completion_time # INVALID_TIME

task_complete(task) ==
    /\ task.node_monitor_get_task_time # INVALID_TIME
    /\ task.scheduler_launch_time # INVALID_TIME
    /\ task.node_monitor_launch_time # INVALID_TIME
    /\ task.completion_time # INVALID_TIME

----------------------------------------------------------------------------
(* class Request *)

Request(id) ==
    [id |-> id,
     num_tasks |-> 0,
     arrival_time |-> INVALID_TIME,
     tasks |-> EmptyMap,
     scheduler_address |-> "",
     node_monitor_get_task_times |-> EmptyMap,
     scheduler_get_task_times |-> << >>,
     enqueue_reservation_rtts |-> EmptyMap]

\* Request.__get_task: the request with the task created if absent
\* Mutant of get_task: a new Task is stored at every call
get_task_fresh(req, task_id) ==
    [req EXCEPT !.tasks = Put(@, task_id, Task(task_id))]

get_task(req, task_id) ==
    IF task_id \in DOMAIN req.tasks THEN req
    ELSE [req EXCEPT !.tasks = Put(@, task_id, Task(task_id))]

\* Mutant of add_arrival: an arrival that is already recorded is kept
add_arrival_first_wins(req, time, num_tasks, address) ==
    IF req.scheduler_address # "" THEN req
    ELSE [req EXCEPT !.arrival_time = time,
                     !.num_tasks = num_tasks,
                     !.scheduler_address = address]

\* num_tasks is the integer int(num_tasks) of the parameter text
add_arrival(req, time, num_tasks, address) ==
    [req EXCEPT !.arrival_time = time,
                !.num_tasks = num_tasks,
                !.scheduler_address = address]

add_enqueue_reservation_launch(req, time, address) ==
    LET rtts == IF address \in DOMAIN req.enqueue_reservation_rtts
                THEN req.enqueue_reservation_rtts
                ELSE Put(req.enqueue_reservation_rtts, address,
                         <<INVALID_TIME, INVALID_TIME>>)
    IN [req EXCEPT !.enqueue_reservation_rtts =
                       Put(rtts, address, <<time, rtts[address][2]>>)]

add_enqueue_reservation_completion(req, time, address) ==
    LET parts == SplitSlash(address)
        ip_only == IF Len(parts) > 1 THEN parts[2] ELSE address
        rtts == IF ip_only \in DOMAIN req.enqueue_reservation_rtts
                THEN req.enqueue_reservation_rtts
                ELSE Put(req.enqueue_reservation_rtts, ip_only,
                         <<INVALID_TIME, INVALID_TIME>>)
    IN [req EXCEPT !.enqueue_reservation_rtts =
                       Put(rtts, ip_only, <<rtts[ip_only][1], time>>)]

add_node_monitor_get_task_time(req, time, address) ==
    [req EXCEPT !.node_monitor_get_task_times = Put(@, address, time)]

add_scheduler_get_task(req, time) ==
    [req EXCEPT !.scheduler_get_task_times = Append(@, time)]

add_scheduler_task_launch(req, task_id, launch_time) ==
    LET r == get_task(req, task_id)
    IN [r EXCEPT !.tasks[task_id] = set_scheduler_launch_time(@, launch_time)]

add_node_monitor_task_launch(req, node_monitor_address, task_id, previous_request_id, previous_task_id, launch_time) ==
    LET r == get_task(req, task_id)
    IN [r EXCEPT !.tasks[task_id] =
           set_previous_task(
               set_node_monitor_launch_time(
                   [@ EXCEPT !.node_monitor_address = node_monitor_address],
                   launch_time),
               previous_request_id, previous_task_id)]

add_task_completion(req, task_id, completion_time) ==
    LET r == get_task(req, task_id)
    IN [r EXCEPT !.tasks[task_id] = set_completion_time(@, completion_time)]

\* The tasks the backfill loop can serve: no address, or an address the
\* request has a get-task time for (otherwise the lookup raises KeyError).
backfill_ok(req, task_id) ==
    \/ req.tasks[task_id].node_monitor_address = ""
    \/ req.tasks[task_id].node_monitor_address \in DOMAIN req.node_monitor_get_task_times

\* Mutant of backfill_task: a get-task time already filled in is kept
backfill_task_once(req, task_id) ==
    IF req.tasks[task_id].node_monitor_address # ""
       /\ req.tasks[task_id].node_monitor_get_task_time = INVALID_TIME
    THEN [req EXCEPT !.tasks[task_id].node_monitor_get_task_time =
              req.node_monitor_get_task_times[req.tasks[task_id].node_monitor_address]]
    ELSE req

\* One iteration of the loop of set_node_monitor_get_task_times_for_tasks
backfill_task(req, task_id) ==
    IF req.tasks[task_id].node_monitor_address # ""
    THEN [req EXCEPT !.tasks[task_id].node_monitor_get_task_time =
              req.node_monitor_get_task_times[req.tasks[task_id].node_monitor_address]]
    ELSE req

RECURSIVE backfill_loop(_, _)
\* The loop over the task ids in the given order, stopping at a KeyError.
backfill_loop(req, ids) ==
    IF ids = << >> THEN req
    ELSE IF ~backfill_ok(req, Head(ids)) THEN req
    ELSE backfill_loop(backfill_task(req, Head(ids)), Tail(ids))

\* set_node_monitor_get_task_times_for_tasks finishes without KeyError
set_get_task_times_ok(req) == \A t \in DOMAIN req.tasks : backfill_ok(req, t)

\* set_node_monitor_get_task_times_for_tasks, when it finishes
set_node_monitor_get_task_times_for_tasks(req) ==
    backfill_loop(req, SetToSeq(DOMAIN req.tasks))

get_enqueue_reservation_rtts(req) ==
    LET keys == SetToSeq(DOMAIN req.enqueue_reservation_rtts)
        both(k) == /\ req.enqueue_reservation_rtts[k][1] # INVALID_TIME
                   /\ req.enqueue_reservation_rtts[k][2] # INVALID_TIME
    IN Concat([i \in 1..Len(keys) |->
                  IF both(keys[i])
                  THEN <<req.enqueue_reservation_rtts[keys[i]][2]
                           - req.enqueue_reservation_rtts[keys[i]][1]>>
                  ELSE << >>])

start_and_service_times(req) ==
    LET keys == SetToSeq(DOMAIN req.tasks)
    IN Concat([i \in 1..Len(keys) |->
                  IF task_complete(req.tasks[keys[i]])
                  THEN << <<req.tasks[keys[i]].scheduler_launch_time,
                            service_time(req.tasks[keys[i]])>> >>
                  ELSE << >>])

service_times(req) ==
    LET keys == SetToSeq(DOMAIN req.tasks)
    IN Concat([i \in 1..Len(keys) |->
                  IF task_complete(req.tasks[keys[i]])
                  THEN <<service_time(req.tasks[keys[i]])>>
                  ELSE << >>])

queue_times(req) ==
    LET keys == SetToSeq(DOMAIN req.tasks)
    IN Concat([i \in 1..Len(keys) |->
                  IF task_complete(req.tasks[keys[i]])
                  THEN <<req.tasks[keys[i]].scheduler_launch_time - req.arrival_time>>
                  ELSE << >>])

RECURSIVE response_loop(_, _, _)
\* The loop of response_time over the task ids; completion_time in half ms.
response_loop(req, ids, completion_time) ==
    IF ids = << >> THEN completion_time - 2 * req.arrival_time
    ELSE IF req.tasks[Head(ids)].completion_time = INVALID_TIME THEN INVALID_TIME_DELTA
    ELSE response_loop(req, Tail(ids),
                       Max(completion_time, adjusted_completion_time(req.tasks[Head(ids)])))

\* Mutant of response_time: the running maximum starts at 0, not at the arrival
response_time_from_zero(req) ==
    IF req.arrival_time = INVALID_TIME THEN INVALID_TIME_DELTA
    ELSE response_loop(req, SetToSeq(DOMAIN req.tasks), 0)

\* Twice the Python value, or INVALID_TIME_DELTA
response_time(req) ==
    IF req.arrival_time = INVALID_TIME THEN INVALID_TIME_DELTA
    ELSE response_loop(req, SetToSeq(DOMAIN req.tasks), 2 * req.arrival_time)

\* The messages response_time logs: the two logger.debug calls about a missing
\* time.  The loop returns at the first task without a completion time; the
\* warning about clock skew is commented out in the source and the test of
\* (completion_time - arrival_time) > 2000 guards a pass statement.
response_time_diagnostics(req) ==
    IF req.arrival_time = INVALID_TIME THEN {"missing_arrival_time"}
    ELSE IF \E t \in DOMAIN req.tasks : req.tasks[t].completion_time = INVALID_TIME
    THEN {"missing_completion_time"}
    ELSE {}

\* Mutant of request_complete: the number of tasks is not compared
request_complete_any_count(req) ==
    IF req.num_tasks = 0 \/ req.arrival_time = 0
    THEN FALSE
    ELSE \A t \in DOMAIN req.tasks : task_complete(req.tasks[t])

request_complete(req) ==
    IF \/ req.num_tasks = 0
       \/ req.arrival_time = 0
       \/ req.num_tasks # Cardinality(DOMAIN req.tasks)
    THEN FALSE
    ELSE \A t \in DOMAIN req.tasks : task_complete(req.tasks[t])

----------------------------------------------------------------------------
(* class LogParser *)

\* The LogParser object together with the exception that ended the run, if any
Parser ==
    [requests |-> requests,
     earliest_time |-> earliest_time,
     node_monitor_queue_lengths |-> node_monitor_queue_lengths,
     exc |-> exc]

\* A log line: the number of tab-separated items, whether the second item is
\* decimal text and its value, and the colon-separated items of the third.
Line(time, params) == [nitems |-> 3, time_ok |-> TRUE, time |-> time, params |-> params]

\* An exception leaves the handler with what it had done so far
Raise(st, e) == [st EXCEPT !.exc = e]

\* Mutant of get_request: a new Request is stored at every call
get_request_fresh(st, request_id) ==
    [st EXCEPT !.requests = Put(@, request_id, Request(request_id))]

\* LogParser.__get_request: the parser with the request created if absent
get_request(st, request_id) ==
    IF request_id \in DOMAIN st.requests THEN st
    ELSE [st EXCEPT !.requests = Put(@, request_id, Request(request_id))]

\* Store the request a handler has mutated
with_request(st, request_id, req) == [st EXCEPT !.requests = Put(@, request_id, req)]

\* LogParser.__reservation_enqueued
reservation_enqueued(st, time, ip_address, num_queued_reservations) ==
    LET old == IF ip_address \in DOMAIN st.node_monitor_queue_lengths
               THEN st.node_monitor_queue_lengths[ip_address] ELSE << >>
    IN [st EXCEPT !.node_monitor_queue_lengths =
            Put(@, ip_address, Append(old, <<time, num_queued_reservations>>))]

\* The if/elif chain of parse_file on audit_event_params (p[1] is Python's
\* audit_event_params[0]); an index past the end raises IndexError after the
\* effects evaluated before it.
dispatch(st, time, p) ==
    LET kind == p[1]
        st1 == IF Len(p) >= 2 THEN get_request(st, p[2]) ELSE st
        req == st1.requests[p[2]]
    IN
    CASE kind = "arrived" ->
           IF Len(p) < 2 THEN Raise(st, "IndexError")
           ELSE IF Len(p) < 4 THEN Raise(st1, "IndexError")
           ELSE IF ~IsIntText(p[3])
                THEN Raise(with_request(st1, p[2], [req EXCEPT !.arrival_time = time]),
                           "ValueError")
           ELSE with_request(st1, p[2], add_arrival(req, time, IntOf(p[3]), p[4]))
      [] kind = "scheduler_launch_enqueue_task" ->
           IF Len(p) < 2 THEN Raise(st, "IndexError")
           ELSE IF Len(p) < 3 THEN Raise(st1, "IndexError")
           ELSE with_request(st1, p[2], add_enqueue_reservation_launch(req, time, p[3]))
      [] kind = "scheduler_complete_enqueue_task" ->
           IF Len(p) < 2 THEN Raise(st, "IndexError")
           ELSE IF Len(p) < 3 THEN Raise(st1, "IndexError")
           ELSE with_request(st1, p[2], add_enqueue_reservation_completion(req, time, p[3]))
      [] kind = "reservation_enqueued" ->
           IF Len(p) < 4 THEN Raise(st, "IndexError")
           ELSE reservation_enqueued(st, time, p[2], p[4])
      [] kind = "scheduler_assigned_task" ->
           IF Len(p) < 2 THEN Raise(st, "IndexError")
           ELSE IF Len(p) < 3 THEN Raise(st1, "IndexError")
           ELSE with_request(st1, p[2],
                    add_scheduler_get_task(add_scheduler_task_launch(req, p[3], time), time))
      [] kind = "scheduler_get_task_no_task" ->
           IF Len(p) < 2 THEN Raise(st, "IndexError")
           ELSE with_request(st1, p[2], add_scheduler_get_task(req, time))
      [] kind = "node_monitor_task_launch" ->
           IF Len(p) < 2 THEN Raise(st, "IndexError")
           ELSE IF Len(p) < 6 THEN Raise(st1, "IndexError")
           ELSE with_request(st1, p[2],
                    add_node_monitor_task_launch(req, p[3], p[4], p[5], p[6], time))
      [] kind = "task_completed" ->
           IF Len(p) < 2 THEN Raise(st, "IndexError")
           ELSE IF Len(p) < 3 THEN Raise(st1, "IndexError")
           ELSE with_request(st1, p[2], add_task_completion(req, p[3], time))
      [] kind = "node_monitor_get_task_no_task" -> st
      [] kind = "node_monitor_get_task" ->
           IF Len(p) < 2 THEN Raise(st, "IndexError")
           ELSE IF Len(p) < 3 THEN Raise(st1, "IndexError")
           ELSE with_request(st1, p[2], add_node_monitor_get_task_time(req, time, p[3]))
      [] OTHER -> st

\* Mutant of parse_line: the number of items is not tested
parse_line_any_items(st, line) ==
    IF ~line.time_ok THEN Raise(st, "ValueError")
    ELSE dispatch([st EXCEPT !.earliest_time = Min(@, line.time)], line.time, line.params)

\* The body of the loop of parse_file for one line
parse_line(st, line) ==
    IF line.nitems # 3 THEN st
    ELSE IF ~line.time_ok THEN Raise(st, "ValueError")
    ELSE dispatch([st EXCEPT !.earliest_time = Min(@, line.time)], line.time, line.params)

\* The event kinds of the if/elif chain of parse_file
KnownKinds ==
    {"arrived", "scheduler_launch_enqueue_task", "scheduler_complete_enqueue_task",
     "reservation_enqueued", "scheduler_assigned_task", "scheduler_get_task_no_task",
     "node_monitor_task_launch", "task_completed", "node_monitor_get_task_no_task",
     "node_monitor_get_task"}

\* The warnings about a second assignment, as the setters of Task emit them
DuplicateWarnings ==
    {"scheduler_launch_twice", "launched_twice", "completed_twice", "multiple_previous"}

\* The kinds of the logging.warn messages that the loop of parse_file emits for
\* one line read in parser state st: the two warnings of parse_file itself and
\* those of the setters of Task that the line's handler reaches.
line_warnings(st, line) ==
    IF line.nitems # 3 THEN {"unexpected_items"}
    ELSE IF ~line.time_ok THEN {}
    ELSE LET p == line.params
             task(id) == IF p[2] \in DOMAIN st.requests
                            /\ id \in DOMAIN st.requests[p[2]].tasks
                         THEN st.requests[p[2]].tasks[id]
                         ELSE Task(id)
         IN CASE p[1] = "scheduler_assigned_task" /\ Len(p) >= 3 ->
                   IF task(p[3]).scheduler_launch_time # INVALID_TIME
                   THEN {"scheduler_launch_twice"} ELSE {}
              [] p[1] = "node_monitor_task_launch" /\ Len(p) >= 6 ->
                   (IF task(p[4]).node_monitor_launch_time # INVALID_TIME
                    THEN {"launched_twice"} ELSE {})
                   \cup (IF task(p[4]).previous_request_id # ""
                            \/ task(p[4]).previous_task_id # ""
                         THEN {"multiple_previous"} ELSE {})
              [] p[1] = "task_completed" /\ Len(p) >= 3 ->
                   IF task(p[3]).completion_time # INVALID_TIME
                   THEN {"completed_twice"} ELSE {}
              [] p[1] \in KnownKinds -> {}
              [] OTHER -> {"unknown_event"}

\* History: the task ids for which the line's handler called Request.__get_task
observed_by(line) ==
    IF line.nitems # 3 \/ ~line.time_ok THEN {}
    ELSE LET p == line.params IN
         IF p[1] \in {"scheduler_assigned_task", "task_completed"} /\ Len(p) >= 3
         THEN {<<p[2], p[3]>>}
         ELSE IF p[1] = "node_monitor_task_launch" /\ Len(p) >= 6
         THEN {<<p[2], p[4]>>}
         ELSE {}

\* The orders in which a dictionary may hand out the keys S
Orderings(S) ==
    {s \in [1..Cardinality(S) -> S] : \A i, j \in 1..Cardinality(S) : i # j => s[i] # s[j]}

\* The finalization loop of parse_file finishes without KeyError
finalize_ok(reqs) == \A r \in DOMAIN reqs : set_get_task_times_ok(reqs[r])

\* The finalization loop of parse_file, when it finishes
finalize(reqs) ==
    [r \in DOMAIN reqs |-> set_node_monitor_get_task_times_for_tasks(reqs[r])]

RECURSIVE finalize_loop(_, _, _)
\* The finalization loop over the requests in order rids, each over its tasks
\* in order torder[r], up to the KeyError that ends it.
finalize_loop(reqs, rids, torder) ==
    IF rids = << >> THEN reqs
    ELSE LET r == Head(rids)
             done == Put(reqs, r, backfill_loop(reqs[r], torder[r]))
         IN IF set_get_task_times_ok(reqs[r])
            THEN finalize_loop(done, Tail(rids), torder)
            ELSE done

\* The extraction window of output_results
start_time == earliest_time + (START_SEC * 1000)

end_time == earliest_time + (END_SEC * 1000)

\* Mutant of considered_requests: no upper end of the window
considered_requests_no_end ==
    {r \in DOMAIN requests :
        /\ requests[r].arrival_time >= start_time
        /\ request_complete(requests[r])}

\* considered_requests of output_results, as request ids
considered_requests ==
    {r \in DOMAIN requests :
        /\ requests[r].arrival_time >= start_time
        /\ requests[r].arrival_time <= end_time
        /\ request_complete(requests[r])}

\* considered_requests of output_results, were it called on the parser st
considered_in(st) ==
    {r \in DOMAIN st.requests :
        /\ st.requests[r].arrival_time >= st.earliest_time + (START_SEC * 1000)
        /\ st.requests[r].arrival_time <= st.earliest_time + (END_SEC * 1000)
        /\ request_complete(st.requests[r])}

\* Mutant of excluded_requests: only the complete requests are counted
excluded_requests_of_complete ==
    Cardinality({r \in DOMAIN requests : request_complete(requests[r])})
        - Cardinality(considered_requests)

\* The number output_results prints as "Excluded ... requests"
excluded_requests == Cardinality(DOMAIN requests) - Cardinality(considered_requests)

NoResults ==
    [complete_requests |-> 0, considered |-> {}, excluded |-> 0,
     response_times |-> << >>, network_rtts |-> << >>,
     service_times |-> << >>, queue_times |-> << >>]

----------------------------------------------------------------------------
(* The run of main *)

Init ==
    /\ requests = EmptyMap
    /\ earliest_time = InitialEarliestTime
    /\ node_monitor_queue_lengths = EmptyMap
    /\ exc = ""
    /\ pc = "idle"
    /\ nfiles = 0
    /\ nlines = 0
    /\ results = NoResults
    /\ observed = {}
    /\ scope \in Scopes
    /\ warnings = {}
    /\ files = << >>
    /\ percentile = NoPercentile

\* file = open(filename, "r") for the next log file
OpenFile ==
    /\ pc = "idle"
    /\ nfiles < MaxFiles
    /\ pc' = "reading"
    /\ nfiles' = nfiles + 1
    /\ files' = IF scope = ReplayScope THEN Append(files, << >>) ELSE files
    /\ UNCHANGED <<requests, earliest_time, node_monitor_queue_lengths, exc, nlines,
                   results, observed, scope, warnings, percentile>>

\* One iteration of the loop over the lines of the file
ReadLine(line) ==
    /\ pc = "reading"
    /\ nlines < scope.max_lines
    /\ LET st == parse_line(Parser, line) IN
          /\ requests' = st.requests
          /\ earliest_time' = st.earliest_time
          /\ node_monitor_queue_lengths' = st.node_monitor_queue_lengths
          /\ exc' = st.exc
          /\ pc' = IF st.exc = "" THEN "reading" ELSE "raised"
    /\ nlines' = nlines + 1
    /\ observed' = observed \cup observed_by(line)
    /\ warnings' = warnings \cup line_warnings(Parser, line)
    /\ files' = IF scope = ReplayScope
                THEN [files EXCEPT ![Len(files)] = Append(@, line)]
                ELSE files
    /\ UNCHANGED <<nfiles, results, scope, percentile>>


(* The well-formed lines of each event kind that a scope holds *)

ArrivedLines(sc) ==
    {Line(t, <<"arrived", r, NumText(n), "s1">>) :
        r \in sc.reqs, t \in sc.arrival_times, n \in 1..MaxTasks}

SchedulerLaunchEnqueueTaskLines(sc) ==
    {Line(t, <<"scheduler_launch_enqueue_task", r, a>>) :
        r \in sc.reqs, t \in sc.aux_times, a \in sc.enqueue_addrs}

SchedulerCompleteEnqueueTaskLines(sc) ==
    {Line(t, <<"scheduler_complete_enqueue_task", r, a>>) :
        r \in sc.reqs, t \in sc.aux_times, a \in sc.enqueue_addrs}

ReservationEnqueuedLines(sc) ==
    {Line(t, <<"reservation_enqueued", "n1", "r1", "1">>) : t \in sc.aux_times}

SchedulerAssignedTaskLines(sc) ==
    {Line(t, <<"scheduler_assigned_task", r, k>>) :
        r \in sc.reqs, k \in sc.tasks, t \in sc.times}

SchedulerGetTaskNoTaskLines(sc) ==
    {Line(t, <<"scheduler_get_task_no_task", r>>) : r \in sc.reqs, t \in sc.aux_times}

NodeMonitorTaskLaunchLines(sc) ==
    {Line(t, <<"node_monitor_task_launch", r, a, k, prev[1], prev[2]>>) :
        r \in sc.reqs, a \in sc.node_addrs, k \in sc.tasks,
        prev \in sc.previous, t \in sc.times}

TaskCompletedLines(sc) ==
    {Line(t, <<"task_completed", r, k>>) :
        r \in sc.reqs, k \in sc.tasks, t \in sc.times}

NodeMonitorGetTaskNoTaskLines(sc) ==
    {Line(t, <<"node_monitor_get_task_no_task", "r1", "n1">>) : t \in sc.aux_times}

NodeMonitorGetTaskLines(sc) ==
    {Line(t, <<"node_monitor_get_task", r, a>>) :
        r \in sc.reqs, a \in sc.node_addrs, t \in sc.times}

UnknownEventLines(sc) ==
    {Line(t, <<"probe_launch", "r1", "n1">>) : t \in sc.aux_times}

\* Every well-formed line of known kind of a scope
KnownLines(sc) ==
    ArrivedLines(sc)
      \cup SchedulerLaunchEnqueueTaskLines(sc)
      \cup SchedulerCompleteEnqueueTaskLines(sc)
      \cup ReservationEnqueuedLines(sc)
      \cup SchedulerAssignedTaskLines(sc)
      \cup SchedulerGetTaskNoTaskLines(sc)
      \cup NodeMonitorTaskLaunchLines(sc)
      \cup TaskCompletedLines(sc)
      \cup NodeMonitorGetTaskNoTaskLines(sc)
      \cup NodeMonitorGetTaskLines(sc)

Arrived == \E line \in ArrivedLines(scope) : ReadLine(line)

SchedulerLaunchEnqueueTask == \E line \in SchedulerLaunchEnqueueTaskLines(scope) : ReadLine(line)

SchedulerCompleteEnqueueTask == \E line \in SchedulerCompleteEnqueueTaskLines(scope) : ReadLine(line)

ReservationEnqueued == \E line \in ReservationEnqueuedLines(scope) : ReadLine(line)

SchedulerAssignedTask == \E line \in SchedulerAssignedTaskLines(scope) : ReadLine(line)

SchedulerGetTaskNoTask == \E line \in SchedulerGetTaskNoTaskLines(scope) : ReadLine(line)

NodeMonitorTaskLaunch == \E line \in NodeMonitorTaskLaunchLines(scope) : ReadLine(line)

TaskCompleted == \E line \in TaskCompletedLines(scope) : ReadLine(line)

NodeMonitorGetTaskNoTask == \E line \in NodeMonitorGetTaskNoTaskLines(scope) : ReadLine(line)

NodeMonitorGetTask == \E line \in NodeMonitorGetTaskLines(scope) : ReadLine(line)

UnknownEvent == \E line \in UnknownEventLines(scope) : ReadLine(line)

\* The lines that do not split into three tab-separated items
UnexpectedItemsLines ==
    {[nitems |-> n, time_ok |-> TRUE, time |-> 1, params |-> <<"arrived">>] : n \in {2, 4}}

\* A line that does not split into three tab-separated items
UnexpectedItems ==
    /\ scope # ReplayScope
    /\ \E line \in UnexpectedItemsLines : ReadLine(line)

\* The lines with three items whose second item is not decimal text
BadTimestampLines ==
    {[nitems |-> 3, time_ok |-> FALSE, time |-> 0,
      params |-> <<"task_completed", "r1", "t1">>]}

\* A line whose second item is not decimal text
BadTimestamp ==
    /\ scope # ReplayScope
    /\ \E line \in BadTimestampLines : ReadLine(line)

\* The lines of an event with fewer parameters than its handler reads
ShortEventLines ==
    {Line(1, p) : p \in {<<"arrived", "r1", "1">>, <<"task_completed", "r1">>,
                         <<"node_monitor_task_launch", "r1", "n1", "t1">>,
                         <<"reservation_enqueued", "n1">>, <<"scheduler_assigned_task">>}}

\* An event with fewer parameters than its handler reads
ShortEvent ==
    /\ scope # ReplayScope
    /\ \E line \in ShortEventLines : ReadLine(line)

\* An arrival whose task count is not decimal text
BadTaskCount ==
    /\ scope # ReplayScope
    /\ ReadLine(Line(1, <<"arrived", "r1", "x", "s1">>))

\* The end of the file: the finalization loop of parse_file
EndOfFile ==
    /\ pc = "reading"
    /\ IF finalize_ok(requests)
       THEN /\ requests' = finalize(requests)
            /\ pc' = "idle"
            /\ exc' = exc
       ELSE /\ \E rids \in Orderings(DOMAIN requests) :
                 \E torder \in [DOMAIN requests -> UNION {Orderings(DOMAIN requests[r].tasks) :
                                                           r \in DOMAIN requests}] :
                    /\ \A r \in DOMAIN requests :
                          torder[r] \in Orderings(DOMAIN requests[r].tasks)
                    /\ requests' = finalize_loop(requests, rids, torder)
            /\ pc' = "raised"
            /\ exc' = "KeyError"
    /\ UNCHANGED <<earliest_time, node_monitor_queue_lengths, nfiles, nlines, results,
                   observed, scope, warnings, files, percentile>>

\* output_results, up to the files it writes: the windowed sequences, then the
\* read of start_and_service_times[0], which raises IndexError on an empty list.
OutputResults ==
    /\ pc = "idle"
    /\ nfiles >= 1
    /\ LET keys == SetToSeq(considered_requests)
           per(f(_)) == Concat([i \in 1..Len(keys) |-> f(requests[keys[i]])])
           one_response(req) == <<response_time(req)>>
       IN /\ results' =
               [complete_requests |->
                    Cardinality({r \in DOMAIN requests : request_complete(requests[r])}),
                considered |-> considered_requests,
                excluded |-> excluded_requests,
                response_times |-> Sorted(per(one_response)),
                network_rtts |-> Sorted(per(get_enqueue_reservation_rtts)),
                service_times |-> Sorted(per(service_times)),
                queue_times |-> Sorted(per(queue_times))]
          /\ IF per(start_and_service_times) = << >>
             THEN pc' = "raised" /\ exc' = "IndexError"
             ELSE pc' = "done" /\ exc' = exc
    /\ UNCHANGED <<requests, earliest_time, node_monitor_queue_lengths, nfiles, nlines,
                   observed, scope, warnings, files, percentile>>

Next ==
    \/ OpenFile
    \/ Arrived
    \/ SchedulerLaunchEnqueueTask
    \/ SchedulerCompleteEnqueueTask
    \/ ReservationEnqueued
    \/ SchedulerAssignedTask
    \/ SchedulerGetTaskNoTask
    \/ NodeMonitorTaskLaunch
    \/ TaskCompleted
    \/ NodeMonitorGetTaskNoTask
    \/ NodeMonitorGetTask
    \/ UnknownEvent
    \/ UnexpectedItems
    \/ BadTimestamp
    \/ ShortEvent
    \/ BadTaskCount
    \/ EndOfFile
    \/ OutputResults

Spec == Init /\ [][Next]_vars

\* The lists and the percent arguments get_percentile is applied to
Samples == UNION {[1..n -> (0 - 1)..MaxSample] : n \in 0..MaxSamples}

Percents == 0..100

\* A call of get_percentile, on its own, with the arguments drawn at the start
GetPercentile ==
    /\ ~percentile.called
    /\ LET returned == get_percentile(percentile.N, percentile.percent)
       IN percentile' = [percentile EXCEPT !.called = TRUE,
                                           !.exc = returned.exc,
                                           !.value = returned.value]
    /\ UNCHANGED <<requests, earliest_time, node_monitor_queue_lengths, exc, pc, nfiles,
                   nlines, results, observed, scope, warnings, files>>

PercentileInit ==
    /\ requests = EmptyMap
    /\ earliest_time = InitialEarliestTime
    /\ node_monitor_queue_lengths = EmptyMap
    /\ exc = ""
    /\ pc = "idle"
    /\ nfiles = 0
    /\ nlines = 0
    /\ results = NoResults
    /\ observed = {}
    /\ scope = ReplayScope
    /\ warnings = {}
    /\ files = << >>
    /\ percentile \in {[NoPercentile EXCEPT !.N = N, !.percent = percent] :
                          N \in Samples, percent \in Percents}

PercentileNext == GetPercentile

\* get_percentile applied to every list and percent argument of the bounds
PercentileSpec == PercentileInit /\ [][PercentileNext]_vars

TypeOK ==
    /\ pc \in {"idle", "reading", "done", "raised"}
    /\ exc \in {"", "KeyError", "IndexError", "ValueError"}
    /\ nlines \in 0..DeepLines
    /\ nfiles \in 0..MaxFiles
    /\ warnings \subseteq DuplicateWarnings \cup {"unexpected_items", "unknown_event"}
    /\ percentile.percent \in Percents

----------------------------------------------------------------------------
(* parse_file as a function of the lines still to be read *)

RECURSIVE read_lines(_, _)
\* The loop of parse_file over the lines ls, up to an exception
read_lines(st, ls) ==
    IF ls = << >> \/ st.exc # "" THEN st
    ELSE read_lines(parse_line(st, Head(ls)), Tail(ls))

\* parse_file from parser state st on a file whose remaining lines are ls.
\* When the finalization loop raises, only the exception is reported.
parse_file(st, ls) ==
    LET s == read_lines(st, ls)
    IN IF s.exc # "" THEN s
       ELSE IF finalize_ok(s.requests) THEN [s EXCEPT !.requests = finalize(@)]
       ELSE Raise(s, "KeyError")

\* The LogParser as LogParser.__init__ leaves it
NewParser ==
    [requests |-> EmptyMap,
     earliest_time |-> InitialEarliestTime,
     node_monitor_queue_lengths |-> EmptyMap,
     exc |-> ""]

RECURSIVE file_warnings(_, _)
\* The kinds of the warnings the loop of parse_file emits over the lines ls
file_warnings(st, ls) ==
    IF ls = << >> \/ st.exc # "" THEN {}
    ELSE line_warnings(st, Head(ls)) \cup file_warnings(parse_line(st, Head(ls)), Tail(ls))

\* The derived metrics of every request of a registry, and its classification
Metrics(reqs) ==
    [r \in DOMAIN reqs |->
        [response |-> response_time(reqs[r]),
         service |-> Sorted(service_times(reqs[r])),
         queue |-> Sorted(queue_times(reqs[r])),
         rtts |-> Sorted(get_enqueue_reservation_rtts(reqs[r])),
         complete |-> request_complete(reqs[r])]]

\* What a caller can compare of a parse_file call: the exception, or the
\* Request/Task state it left.
Outcome(st) ==
    IF st.exc # "" THEN [exc |-> st.exc, requests |-> EmptyMap]
    ELSE [exc |-> "", requests |-> st.requests]

\* The field of the Request/Task state a well-formed line assigns
written(line) ==
    LET p == line.params IN
    CASE p[1] = "arrived" -> {<<p[2], "", "arrival">>}
      [] p[1] = "scheduler_launch_enqueue_task" -> {<<p[2], p[3], "enqueue_launch">>}
      [] p[1] = "scheduler_complete_enqueue_task" ->
           {<<p[2], SplitSlash(p[3])[Len(SplitSlash(p[3]))], "enqueue_completion">>}
      [] p[1] = "scheduler_assigned_task" -> {<<p[2], p[3], "scheduler_launch_time">>}
      [] p[1] = "node_monitor_task_launch" -> {<<p[2], p[4], "node_monitor_launch_time">>}
      [] p[1] = "task_completed" -> {<<p[2], p[3], "completion_time">>}
      [] p[1] = "node_monitor_get_task" -> {<<p[2], p[3], "get_task_time">>}
      [] OTHER -> {}

\* The clock offsets d considered for "node clock = scheduler clock + d"
Offsets == (0 - MaxTime)..MaxTime

\* The largest element of a non-empty set of integers
SetMax(S) == CHOOSE x \in S : \A y \in S : y <= x

RECURSIVE SumNumTasks(_)
\* The sum of the expected task counts of the requests with ids in S
SumNumTasks(S) ==
    IF S = {} THEN 0
    ELSE LET r == CHOOSE x \in S : TRUE IN requests[r].num_tasks + SumNumTasks(S \ {r})

\* Every task of every request
AllTasks == {<<r, t>> \in UNION {{r} \X DOMAIN requests[r].tasks : r \in DOMAIN requests} : TRUE}

TaskOf(rt) == requests[rt[1]].tasks[rt[2]]

\* Under "node clock = scheduler clock + d", the scheduler assigned the task at
\* the midpoint of the instants at which the node asked for it and launched it.
SymmetricDelay(task, d) ==
    2 * task.scheduler_launch_time =
        (task.node_monitor_get_task_time - d) + (task.node_monitor_launch_time - d)

----------------------------------------------------------------------------
(* Claims *)

\* C1: event order independence. Whatever has been read of a file so far, if
\* the file ends with two well-formed lines that assign different fields, then
\* reading those two lines in either order makes parse_file end the same way:
\* with the same exception or with the same Request/Task state.
C1_OrderIndependent ==
    pc = "reading" =>
        \A a, b \in KnownLines(scope) :
            written(a) \cap written(b) = {} =>
                Outcome(parse_file(Parser, <<a, b>>)) = Outcome(parse_file(Parser, <<b, a>>))

\* C2: the files of a trace may be read in any order. Whenever the lines read
\* so far together with one more line b would parse as a single file without
\* raising, ending the file here and leaving b to a later file does not raise
\* either.
C2_FileOrderIndependent ==
    pc = "reading" =>
        \A b \in KnownLines(scope) :
            parse_file(Parser, <<b>>).exc = "" => finalize_ok(requests)

\* C3: a request reads as complete exactly when its expected task count is
\* positive, its arrival time is set, the number of distinct task ids observed
\* for it equals the expected count, and each of those tasks is complete.
C3_RequestComplete ==
    \A r \in DOMAIN requests :
        LET req == requests[r]
            seen == {t \in scope.tasks : <<r, t>> \in observed}
        IN request_complete(req) <=>
              /\ req.num_tasks > 0
              /\ req.arrival_time # INVALID_TIME
              /\ Cardinality(seen) = req.num_tasks
              /\ \A t \in seen : t \in DOMAIN req.tasks /\ task_complete(req.tasks[t])

\* C3 witness: a request that reads as complete, with as many task ids
\* observed as it expects
C3_Witness ==
    \E r \in DOMAIN requests :
        /\ request_complete(requests[r])
        /\ Cardinality({t \in scope.tasks : <<r, t>> \in observed}) = requests[r].num_tasks

\* C4: response_time is the sentinel when the arrival time is unset or a task
\* lacks its completion time; otherwise it is max(arrival, max of the adjusted
\* completion times) - arrival (here in half milliseconds), never negative.
C4_ResponseTime ==
    \A r \in DOMAIN requests :
        LET req == requests[r]
            rt == response_time(req)
        IN IF \/ req.arrival_time = INVALID_TIME
              \/ \E t \in DOMAIN req.tasks : req.tasks[t].completion_time = INVALID_TIME
           THEN rt = INVALID_TIME_DELTA
           ELSE /\ rt = SetMax({2 * req.arrival_time}
                                 \cup {adjusted_completion_time(req.tasks[t]) :
                                          t \in DOMAIN req.tasks})
                            - 2 * req.arrival_time
                /\ rt >= 0

\* C4 witness: a request with a response time (0, not the sentinel) one of
\* whose tasks has an adjusted completion time before the arrival
C4_Witness ==
    \E r \in DOMAIN requests :
        /\ requests[r].arrival_time # INVALID_TIME
        /\ response_time(requests[r]) = 0
        /\ \E t \in DOMAIN requests[r].tasks :
              adjusted_completion_time(requests[r].tasks[t]) < 2 * requests[r].arrival_time

\* C5: for every complete task the reported queue time is node launch time -
\* node get-task time and the reported service time is completion time - node
\* launch time.
C5_QueueAndServiceTimes ==
    \A r \in DOMAIN requests :
        LET req == requests[r]
            keys == SetToSeq(DOMAIN req.tasks)
        IN /\ queue_times(req) =
                Concat([i \in 1..Len(keys) |->
                    IF task_complete(req.tasks[keys[i]])
                    THEN <<req.tasks[keys[i]].node_monitor_launch_time
                             - req.tasks[keys[i]].node_monitor_get_task_time>>
                    ELSE << >>])
           /\ service_times(req) =
                Concat([i \in 1..Len(keys) |->
                    IF task_complete(req.tasks[keys[i]])
                    THEN <<req.tasks[keys[i]].completion_time
                             - req.tasks[keys[i]].node_monitor_launch_time>>
                    ELSE << >>])

\* C6: a missing node_monitor_get_task event never aborts ingestion: the
\* finalization loop does not end in a KeyError.
C6_MissingGetTaskDoesNotAbort == exc # "KeyError"

C8_AdjustedIsSchedulerClock ==
    \A rt \in AllTasks : \A d \in Offsets :
        (task_complete(TaskOf(rt)) /\ SymmetricDelay(TaskOf(rt), d)) =>
            adjusted_completion_time(TaskOf(rt)) = 2 * (TaskOf(rt).completion_time - d)

\* C8 witness: a complete task whose node clock is offset from the
\* scheduler's by some d # 0
C8_Witness ==
    \E rt \in AllTasks : \E d \in Offsets \ {0} :
        /\ task_complete(TaskOf(rt))
        /\ SymmetricDelay(TaskOf(rt), d)

\* C9 (as claimed): under the same assumption a positive skew means the node
\* clock is ahead (d > 0) and a negative skew that it is behind (d < 0).
C9_PositiveSkewNodeAhead ==
    \A rt \in AllTasks : \A d \in Offsets :
        (task_complete(TaskOf(rt)) /\ SymmetricDelay(TaskOf(rt), d)) =>
            /\ skew(TaskOf(rt)) > 0 => d > 0
            /\ skew(TaskOf(rt)) < 0 => d < 0

\* C9 (amended): under the same assumption the skew is -d: a positive skew
\* means the node clock is behind the scheduler's (d < 0), a negative skew that
\* it is ahead (d > 0).
C9_PositiveSkewNodeBehind ==
    \A rt \in AllTasks : \A d \in Offsets :
        (task_complete(TaskOf(rt)) /\ SymmetricDelay(TaskOf(rt), d)) =>
            /\ skew(TaskOf(rt)) = 0 - 2 * d
            /\ skew(TaskOf(rt)) > 0 <=> d < 0
            /\ skew(TaskOf(rt)) < 0 <=> d > 0

\* C9 witness: a complete task with a positive skew whose node clock is behind
C9_Witness ==
    \E rt \in AllTasks : \E d \in Offsets :
        /\ task_complete(TaskOf(rt))
        /\ SymmetricDelay(TaskOf(rt), d)
        /\ skew(TaskOf(rt)) > 0
        /\ d < 0

\* C10: the requests output_results draws its sequences from are complete and
\* arrived in the closed window [earliest + START_SEC*1000, earliest +
\* END_SEC*1000]; the response-time sequence has one entry per such request and
\* the service-time and queue-time sequences one entry per task of them.
C10_WindowFiltering ==
    /\ \A r \in results.considered :
          /\ r \in DOMAIN requests
          /\ request_complete(requests[r])
          /\ requests[r].arrival_time >= earliest_time + 200000
          /\ requests[r].arrival_time <= earliest_time + 300000
    /\ Len(results.response_times) = Cardinality(results.considered)
    /\ Len(results.service_times) = SumNumTasks(results.considered)
    /\ Len(results.queue_times) = SumNumTasks(results.considered)

\* C10 witness: output_results has run and a request contributed
C10_Witness ==
    /\ pc = "done"
    /\ results.considered # {}
    /\ Len(results.service_times) > 0

\* C11 (as claimed): the excluded count that output_results reports is the
\* number of complete requests minus the number of requests in the window.
C11_ExcludedOfComplete ==
    results.excluded = results.complete_requests - Cardinality(results.considered)

\* C11 (amended): the excluded count that output_results reports is the number
\* of all requests of the registry minus the number of requests in the window:
\* it counts the requests that are incomplete or arrived outside the window.
\* This is the count output_results would report wherever main can call it,
\* and the count it has reported once it has run.
C11_ExcludedOfAll ==
    LET outside == {r \in DOMAIN requests :
                       \/ ~request_complete(requests[r])
                       \/ requests[r].arrival_time < earliest_time + 200000
                       \/ requests[r].arrival_time > earliest_time + 300000}
    IN /\ (pc = "idle" /\ nfiles >= 1) => excluded_requests = Cardinality(outside)
       /\ (pc = "done" \/ results # NoResults) =>
             /\ results.excluded = Cardinality(outside)
             /\ results.excluded =
                   Cardinality(DOMAIN requests) - Cardinality(results.considered)

\* C11 witness: output_results has reported an excluded count that includes a
\* request that is not complete
C11_Witness ==
    /\ results.excluded > results.complete_requests - Cardinality(results.considered)
    /\ \E r \in DOMAIN requests : ~request_complete(requests[r])

\* C12: parsing a file a second time changes no derived metric. When a first
\* file has been parsed without an exception, parsing the same lines again
\* finishes without an exception, leaves the response time, the service-time,
\* queue-time and network round-trip lists and the complete/incomplete
\* classification of every request as they were, leaves the earliest time as
\* it was, and emits second-assignment warnings only; and when the run has
\* read two files with the same lines, the metrics are those of one pass.
\* The same holds of every file of two well-formed lines of any scope (with
\* the enqueue events and both forms of a node address) parsed by a new parser.
C12_ParseTwice ==
    /\ (pc = "idle" /\ nfiles = 0) =>
          \A a, b \in KnownLines(scope) :
              LET once == parse_file(NewParser, <<a, b>>)
                  again == parse_file(once, <<a, b>>)
              IN once.exc = "" =>
                    /\ again.exc = ""
                    /\ Metrics(again.requests) = Metrics(once.requests)
                    /\ again.earliest_time = once.earliest_time
    /\ (scope = ReplayScope /\ pc = "idle" /\ exc = "") =>
        /\ Len(files) = 1 =>
              LET again == parse_file(Parser, files[1])
              IN /\ again.exc = ""
                 /\ Metrics(again.requests) = Metrics(requests)
                 /\ again.earliest_time = earliest_time
                 /\ file_warnings(Parser, files[1]) \subseteq DuplicateWarnings
        /\ (Len(files) = 2 /\ files[1] = files[2]) =>
              LET once == parse_file(NewParser, files[1])
              IN /\ once.exc = ""
                 /\ Metrics(requests) = Metrics(once.requests)
                 /\ earliest_time = once.earliest_time

\* C12 witness: the run has parsed two files with the same two lines; the
\* request has a response time and the second pass warned about a task that
\* completed twice
C12_Witness ==
    /\ scope = ReplayScope /\ pc = "idle" /\ exc = ""
    /\ Len(files) = 2 /\ files[1] = files[2] /\ Len(files[1]) = 2
    /\ "completed_twice" \in warnings
    /\ \E r \in DOMAIN requests : response_time(requests[r]) > 0

\* C13: when a request has its arrival time and the completion time of every
\* task, and the adjusted completion time of some task is earlier than the
\* arrival, response_time logs a diagnostic about it instead of silently
\* returning the clamped value.
C13_EarlyCompletionFlagged ==
    \A r \in DOMAIN requests :
        LET req == requests[r] IN
        (/\ req.arrival_time # INVALID_TIME
         /\ \A t \in DOMAIN req.tasks : req.tasks[t].completion_time # INVALID_TIME
         /\ \E t \in DOMAIN req.tasks :
               adjusted_completion_time(req.tasks[t]) < 2 * req.arrival_time)
        => response_time_diagnostics(req) # {}

\* The run is inside a file and can read one more line
CanRead == pc = "reading" /\ nlines < scope.max_lines

\* The three fields of a request that an arrival event assigns
ArrivalFields(req) == <<req.arrival_time, req.num_tasks, req.scheduler_address>>

C15_MalformedLineSkipped ==
    pc = "reading" =>
        \A line \in BadTimestampLines \cup ShortEventLines :
            /\ parse_line(Parser, line).exc = ""
            /\ parse_line(Parser, line).requests = requests
            /\ line_warnings(Parser, line) # {}

\* C16: a line that does not split into exactly three items is not fatal. It
\* raises nothing and leaves the requests, the earliest time and the
\* queue-length series as they were, it is reported with a warning, and a line
\* that follows it is processed as if it had come first.
C16_UnexpectedItemsNotFatal ==
    pc = "reading" =>
        \A line \in UnexpectedItemsLines :
            /\ parse_line(Parser, line) = Parser
            /\ line_warnings(Parser, line) = {"unexpected_items"}
            /\ \A next \in TaskCompletedLines(scope) \cup UnknownEventLines(scope) :
                  read_lines(Parser, <<line, next>>) = parse_line(Parser, next)

\* C16 witness: a file with a line of unexpected shape has been read to its
\* end without an exception, and its other lines have left a request
C16_Witness ==
    /\ "unexpected_items" \in warnings
    /\ pc = "idle" /\ exc = ""
    /\ requests # EmptyMap

\* C17: an event of unknown kind is ignored. Whatever has been read so far,
\* a file that ends with one more well-formed line of unknown kind leaves the
\* same Request/Task state, and the same set of requests inside the extraction
\* window, as the file without that line.
C17_UnknownEventIgnored ==
    pc = "reading" =>
        \A u \in UnknownEventLines(scope) :
            LET base == parse_file(Parser, << >>)
                plus == parse_file(Parser, <<u>>)
            IN base.exc = "" =>
                  /\ plus.exc = ""
                  /\ plus.requests = base.requests
                  /\ considered_in(plus) = considered_in(base)

\* C18: an event that names a request or task not yet present creates it
\* instead of raising. No well-formed line of known kind raises, and every
\* task id a dispatched event named is in the registry. A task_completed line
\* for a request not yet present adds that request, with nothing set but one
\* task whose completion time is the line's and whose other fields are as a
\* new Task has them; a node_monitor_task_launch line for the same ids that
\* follows sets the launch time of that same task, keeps its completion time
\* and adds neither a request nor a task.
C18_LazyCreation ==
    /\ \A rt \in observed :
          rt[1] \in DOMAIN requests /\ rt[2] \in DOMAIN requests[rt[1]].tasks
    /\ CanRead =>
          /\ \A line \in KnownLines(scope) : parse_line(Parser, line).exc = ""
          /\ \A done \in TaskCompletedLines(scope) :
                LET r == done.params[2]
                    t == done.params[3]
                    after == parse_line(Parser, done)
                IN r \notin DOMAIN requests =>
                      /\ DOMAIN after.requests = DOMAIN requests \cup {r}
                      /\ \A q \in DOMAIN requests : after.requests[q] = requests[q]
                      /\ after.requests[r] =
                            [Request(r) EXCEPT !.tasks =
                                Put(EmptyMap, t, [Task(t) EXCEPT !.completion_time = done.time])]
                      /\ \A launch \in NodeMonitorTaskLaunchLines(scope) :
                            (launch.params[2] = r /\ launch.params[4] = t) =>
                                LET later == parse_line(after, launch).requests
                                IN /\ DOMAIN later = DOMAIN after.requests
                                   /\ DOMAIN later[r].tasks = {t}
                                   /\ later[r].tasks[t].completion_time = done.time
                                   /\ later[r].tasks[t].node_monitor_launch_time = launch.time
                                   /\ later[r].tasks[t].scheduler_launch_time = INVALID_TIME

\* C18 witness: a file began with a task_completed line and then a
\* node_monitor_task_launch line for the same ids; the registry holds one
\* request with one task that has both times
C18_Witness ==
    /\ scope = ReplayScope
    /\ Len(files) = 1 /\ Len(files[1]) = 2
    /\ files[1][1].params[1] = "task_completed"
    /\ files[1][2].params[1] = "node_monitor_task_launch"
    /\ DOMAIN requests = {"r1"}
    /\ DOMAIN requests["r1"].tasks = {"t1"}
    /\ requests["r1"].tasks["t1"].completion_time = files[1][1].time
    /\ requests["r1"].tasks["t1"].node_monitor_launch_time = files[1][2].time

\* The fields in which two Task records differ
ChangedFields(a, b) == {f \in DOMAIN a : a[f] # b[f]}

\* The fields of a Task that one event, or the finalization pass, assigns
FieldGroups ==
    {{"scheduler_launch_time"},
     {"node_monitor_address", "node_monitor_launch_time",
      "previous_request_id", "previous_task_id"},
     {"completion_time"},
     {"node_monitor_get_task_time"}}

\* C19: the registry only grows. In every step of reading and of finalization
\* every request id stays in the registry and every task id stays in its
\* request, and no task is replaced by a new object: a step changes, in a task
\* that was present, at most the fields that one event (or the finalization
\* pass) assigns.
C19_RegistryGrows ==
    [][/\ DOMAIN requests \subseteq DOMAIN requests'
       /\ \A r \in DOMAIN requests :
             /\ DOMAIN requests[r].tasks \subseteq DOMAIN requests'[r].tasks
             /\ \A t \in DOMAIN requests[r].tasks :
                   \E g \in FieldGroups :
                       ChangedFields(requests[r].tasks[t], requests'[r].tasks[t]) \subseteq g]_vars

\* C19 witness: two files have been read and finalized, and a request of the
\* registry has two tasks, one with a time that a later event left in place
C19_Witness ==
    /\ pc = "idle" /\ nfiles = 2
    /\ \E r \in DOMAIN requests :
          /\ Cardinality(DOMAIN requests[r].tasks) = 2
          /\ \E t \in DOMAIN requests[r].tasks :
                requests[r].tasks[t].completion_time # INVALID_TIME

\* The list N is in non-decreasing order, as N.sort() leaves it
IsSorted(N) == \A i \in 1..(Len(N) - 1) : N[i] <= N[i + 1]

\* The smallest and the largest sample of a non-empty list
MinOf(N) == CHOOSE x \in {N[i] : i \in DOMAIN N} : \A i \in DOMAIN N : x <= N[i]

MaxOf(N) == CHOOSE x \in {N[i] : i \in DOMAIN N} : \A i \in DOMAIN N : x >= N[i]

\* C20 (as claimed): for every non-empty list S, get_percentile(S, 0.0) is
\* min(S) and get_percentile(S, 1.0) is max(S).
C20_EndsAreMinMax ==
    (percentile.called /\ percentile.N # << >>) =>
        /\ percentile.percent = 0 => percentile.value = FromInt(MinOf(percentile.N))
        /\ percentile.percent = 100 => percentile.value = FromInt(MaxOf(percentile.N))

\* C20 (amended): for every non-empty list S in non-decreasing order,
\* get_percentile(S, 0.0) is min(S) and get_percentile(S, 1.0) is max(S); for
\* any non-empty list they are its first and its last element.
C20_EndsOfSortedAreMinMax ==
    (percentile.called /\ percentile.N # << >>) =>
        /\ percentile.percent = 0 => percentile.value = FromInt(percentile.N[1])
        /\ percentile.percent = 100 =>
              percentile.value = FromInt(percentile.N[Len(percentile.N)])
        /\ IsSorted(percentile.N) =>
              /\ percentile.percent = 0 => percentile.value = FromInt(MinOf(percentile.N))
              /\ percentile.percent = 100 => percentile.value = FromInt(MaxOf(percentile.N))

\* C20 witness: get_percentile was called with 1.0 on a sorted list whose
\* samples differ, and returned the largest
C20_Witness ==
    /\ percentile.called
    /\ Len(percentile.N) >= 2
    /\ IsSorted(percentile.N)
    /\ percentile.N[1] < percentile.N[Len(percentile.N)]
    /\ percentile.percent = 100
    /\ percentile.value = FromInt(MaxOf(percentile.N))

\* The distance of two doubles as an exact magnitude
Distance(x, y) ==
    IF x.neg = y.neg
    THEN IF Less3(x.mag, y.mag) THEN Sub3(y.mag, x.mag) ELSE Sub3(x.mag, y.mag)
    ELSE Add3(x.mag, y.mag)

\* One hundred times the linear interpolation of the list N at the rank
\* (Len(N) - 1) * i / 100, in exact arithmetic
Interpolation100(N, i) ==
    LET k100 == (Len(N) - 1) * i
        f == k100 \div 100
        c == IF k100 % 100 = 0 THEN f ELSE f + 1
    IN N[f + 1] * (100 * c - k100) + N[c + 1] * (k100 - 100 * f)

\* C21: for a non-empty list N and p = i / 100, get_percentile(N, p) with
\* k = (n - 1) * p returns N[k] itself when k is a whole number, and otherwise
\* N[floor(k)] * (ceil(k) - k) + N[ceil(k)] * (k - floor(k)): the value is the
\* linear interpolation between the two neighbouring samples up to the
\* rounding of double arithmetic (less than 2^-40), and no call raises.  The
\* rows of the percentile table are the calls with i = 0..99.
C21_LinearInterpolation ==
    (percentile.called /\ percentile.N # << >>) =>
        LET N == percentile.N
            k100 == (Len(N) - 1) * percentile.percent
            scaled == [neg |-> percentile.value.neg,
                       mag |-> MulSmall(percentile.value.mag, 100)]
        IN /\ percentile.exc = ""
           /\ k100 % 100 = 0 => percentile.value = FromInt(N[k100 \div 100 + 1])
           /\ k100 % 100 # 0 =>
                 Less3(Distance(scaled, FromInt(Interpolation100(N, percentile.percent))),
                       MulSmall(<<2^20, 0, 0>>, 100))

\* C21 witness: a call on three distinct sorted samples at p = 0.75, where
\* k = 1.5 and the value is halfway between the second and the third sample
C21_Witness ==
    /\ percentile.called
    /\ percentile.N = <<0, 1, 3>>
    /\ percentile.percent = 75
    /\ percentile.value = FromInt(2)

\* C22: get_percentile applied to the empty list returns 0 for every percent
\* argument and raises nothing.
C22_EmptyGivesZero ==
    (percentile.called /\ percentile.N = << >>) =>
        /\ percentile.exc = ""
        /\ percentile.value = FromInt(0)
        /\ FormatD(percentile.value) = 0

\* C22 witness: a call on the empty list with p = 0.99 has returned 0
C22_Witness ==
    /\ percentile.called
    /\ percentile.N = << >>
    /\ percentile.percent = 99
    /\ percentile.exc = ""
    /\ percentile.value = FromInt(0)

\* C27: for a list N in non-decreasing order, get_percentile(N, p) lies
\* between N[0] and N[n-1] and does not decrease when p grows, so each
\* column of the table that output_results writes for p = 0.00 .. 0.99 is
\* non-decreasing from one row to the next.
C27_NonDecreasingInPercent ==
    (percentile.called /\ percentile.N # << >> /\ IsSorted(percentile.N)) =>
        LET N == percentile.N
            i == percentile.percent
        IN /\ LeDouble(FromInt(N[1]), percentile.value)
           /\ LeDouble(percentile.value, FromInt(N[Len(N)]))
           /\ i + 1 \in Percents =>
                 LeDouble(percentile.value, get_percentile(N, i + 1).value)
           /\ i + 1 < NUM_DATA_POINTS => FormatD(percentile.value) <= table_entry(N, i + 1)

\* The lines whose handlers reach a setter of Task
SetterLines(sc) ==
    SchedulerAssignedTaskLines(sc) \cup NodeMonitorTaskLaunchLines(sc) \cup TaskCompletedLines(sc)

\* The task id a line of SetterLines carries
TaskIdOf(line) ==
    IF line.params[1] = "node_monitor_task_launch" THEN line.params[4] ELSE line.params[3]

\* The timestamp field of the task that the handler of a line of SetterLines sets
TimeField(line) ==
    CASE line.params[1] = "scheduler_assigned_task" -> "scheduler_launch_time"
      [] line.params[1] = "node_monitor_task_launch" -> "node_monitor_launch_time"
      [] OTHER -> "completion_time"

\* Every field of the task that the handler of a line of SetterLines assigns
WrittenFields(line) ==
    IF line.params[1] = "node_monitor_task_launch"
    THEN {"node_monitor_address", "node_monitor_launch_time",
          "previous_request_id", "previous_task_id"}
    ELSE {TimeField(line)}

\* The warning of the setter of the timestamp field
TwiceWarning(line) ==
    CASE line.params[1] = "scheduler_assigned_task" -> "scheduler_launch_twice"
      [] line.params[1] = "node_monitor_task_launch" -> "launched_twice"
      [] OTHER -> "completed_twice"

\* The task (r, t) of parser state st, as Request.__get_task hands it out
TaskIn(st, r, t) ==
    IF r \in DOMAIN st.requests /\ t \in DOMAIN st.requests[r].tasks
    THEN st.requests[r].tasks[t] ELSE Task(t)

\* Reading line b in parser state st is not fatal, the values of b win, and
\* nothing but the fields that the handler of b assigns to its task changes in
\* any task or request that was there
WriteWins(st, b) ==
    LET r == b.params[2]
        t == TaskIdOf(b)
        after == parse_line(st, b)
    IN /\ after.exc = ""
       /\ after.requests[r].tasks[t][TimeField(b)] = b.time
       /\ b.params[1] = "node_monitor_task_launch" =>
             /\ after.requests[r].tasks[t].previous_request_id = b.params[5]
             /\ after.requests[r].tasks[t].previous_task_id = b.params[6]
       /\ ChangedFields(TaskIn(st, r, t), after.requests[r].tasks[t]) \subseteq WrittenFields(b)
       /\ \A r2 \in DOMAIN st.requests :
             /\ r2 # r => after.requests[r2] = st.requests[r2]
             /\ \A t2 \in DOMAIN st.requests[r2].tasks :
                   (r2 # r \/ t2 # t) => after.requests[r2].tasks[t2] = st.requests[r2].tasks[t2]

\* C23 (as claimed): when two events write the same field of the same task
\* one after the other, the second write is not fatal, emits the warning of
\* the setter, and its value wins; it changes no other field of the task and
\* no other task or request.
C23_SecondWriteWarns ==
    CanRead =>
        \A a \in SetterLines(scope) :
            \A b \in {l \in SetterLines(scope) :
                         /\ l.params[1] = a.params[1]
                         /\ l.params[2] = a.params[2]
                         /\ TaskIdOf(l) = TaskIdOf(a)} :
                LET first == parse_line(Parser, a)
                IN /\ WriteWins(first, b)
                   /\ TwiceWarning(b) \in line_warnings(first, b)
                   /\ b.params[1] = "node_monitor_task_launch" =>
                         "multiple_previous" \in line_warnings(first, b)

\* C23 (amended): a write to scheduler_launch_time, node_monitor_launch_time
\* or completion_time is never fatal and its value wins; it emits the warning
\* of its setter exactly when the field holds a timestamp other than 0, and a
\* write to the previous-task reference emits one exactly when the reference
\* held is not empty.  Each setter changes its own field only, and an event
\* changes no other task and no other request.
C23_WriteToSetFieldWarns ==
    CanRead =>
        \A b \in SetterLines(scope) :
            LET task == TaskIn(Parser, b.params[2], TaskIdOf(b))
            IN /\ WriteWins(Parser, b)
               /\ TwiceWarning(b) \in line_warnings(Parser, b) <=> task[TimeField(b)] # INVALID_TIME
               /\ b.params[1] = "node_monitor_task_launch" =>
                     ("multiple_previous" \in line_warnings(Parser, b)
                         <=> (task.previous_request_id # "" \/ task.previous_task_id # ""))
               /\ ChangedFields(task, set_scheduler_launch_time(task, b.time))
                     \subseteq {"scheduler_launch_time"}
               /\ ChangedFields(task, set_node_monitor_launch_time(task, b.time))
                     \subseteq {"node_monitor_launch_time"}
               /\ ChangedFields(task, set_completion_time(task, b.time))
                     \subseteq {"completion_time"}
               /\ \A prev \in scope.previous :
                     ChangedFields(task, set_previous_task(task, prev[1], prev[2]))
                         \subseteq {"previous_request_id", "previous_task_id"}

\* C23 witness: a file whose first two lines completed the same task at the
\* times 1 and 2 has been read so far; the task holds the second time, the
\* warning was emitted and nothing was raised
C23_Witness ==
    /\ scope = ReplayScope
    /\ pc = "reading"
    /\ files = <<<<Line(1, <<"task_completed", "r1", "t1">>),
                   Line(2, <<"task_completed", "r1", "t1">>)>>>>
    /\ requests["r1"].tasks["t1"].completion_time = 2
    /\ "completed_twice" \in warnings
    /\ exc = ""

\* Every task of the requests reqs has the get-task time that its request
\* recorded for the task's node address, or the sentinel if it has no address
Backfilled(reqs) ==
    \A r \in DOMAIN reqs :
        \A t \in DOMAIN reqs[r].tasks :
            LET task == reqs[r].tasks[t]
            IN IF task.node_monitor_address = ""
               THEN task.node_monitor_get_task_time = INVALID_TIME
               ELSE /\ task.node_monitor_address \in DOMAIN reqs[r].node_monitor_get_task_times
                    /\ task.node_monitor_get_task_time =
                           reqs[r].node_monitor_get_task_times[task.node_monitor_address]

\* C24: finalization backfill.  When parse_file has returned, every task with
\* a node address has the get-task time its request recorded for that
\* address and every task without one has the sentinel.  A pass that
\* finishes changes no field of a task but node_monitor_get_task_time and
\* nothing else of a request, and a second pass right after it changes
\* nothing.
C24_Backfill ==
    /\ (pc = "idle" /\ nfiles >= 1) =>
          /\ Backfilled(requests)
          /\ finalize_ok(requests)
          /\ finalize(requests) = requests
    /\ (pc = "reading" /\ finalize_ok(requests)) =>
          LET done == finalize(requests)
          IN /\ Backfilled(done)
             /\ finalize(done) = done
             /\ \A r \in DOMAIN requests :
                   /\ done[r] = [requests[r] EXCEPT !.tasks = done[r].tasks]
                   /\ DOMAIN done[r].tasks = DOMAIN requests[r].tasks
                   /\ \A t \in DOMAIN requests[r].tasks :
                         ChangedFields(requests[r].tasks[t], done[r].tasks[t])
                             \subseteq {"node_monitor_get_task_time"}

\* C24 witness: two files have been read and finalized; a task runs on a
\* node whose get-task time is 2 and has that time, while it was launched
\* and completed at other times
C24_Witness ==
    /\ pc = "idle"
    /\ nfiles = 2
    /\ \E rt \in AllTasks :
          /\ TaskOf(rt).node_monitor_address = "n1"
          /\ requests[rt[1]].node_monitor_get_task_times["n1"] = 2
          /\ TaskOf(rt).node_monitor_get_task_time = 2
          /\ TaskOf(rt).node_monitor_launch_time = 1
          /\ TaskOf(rt).completion_time = 1

\* The node that the address text of an enqueue event names: "ip", or the ip
\* of "host/ip"
NodeOf(address) == LET parts == SplitSlash(address) IN parts[Len(parts)]

\* The round-trip samples of request r in parser state st
RttsOf(st, r) == get_enqueue_reservation_rtts(st.requests[r])

\* C25: network round-trip samples.  For a request without enqueue events so
\* far, a scheduler_launch_enqueue_task event and a
\* scheduler_complete_enqueue_task event for the same node, with timestamps
\* other than 0, in either order and whatever textual form of the address
\* each carries, make get_enqueue_reservation_rtts yield exactly one sample,
\* complete_ts - launch_ts; one of the two events alone yields no sample.
C25_PairedRtt ==
    CanRead =>
        \A a \in SchedulerLaunchEnqueueTaskLines(scope) :
            \A b \in {l \in SchedulerCompleteEnqueueTaskLines(scope) :
                         /\ l.params[2] = a.params[2]
                         /\ NodeOf(l.params[3]) = NodeOf(a.params[3])} :
                LET r == a.params[2]
                    fresh == r \in DOMAIN requests =>
                                 requests[r].enqueue_reservation_rtts = EmptyMap
                IN (fresh /\ a.time # 0 /\ b.time # 0) =>
                      /\ RttsOf(parse_file(Parser, <<a, b>>), r) = <<b.time - a.time>>
                      /\ RttsOf(parse_file(Parser, <<b, a>>), r) = <<b.time - a.time>>
                      /\ RttsOf(parse_file(Parser, <<a>>), r) = << >>
                      /\ RttsOf(parse_file(Parser, <<b>>), r) = << >>

\* Every timestamp of the lines of the scope is other than 0
NonZeroTimestamps == 0 \notin (scope.times \cup scope.aux_times \cup scope.arrival_times)

====
